---- MODULE Spec2Model ----
(***************************************************************************)
(* RangeCalendar (src/src/RangeCalendar.ts): the selection state machine   *)
(* of the calendar widget, together with the part of the DOM it reads and  *)
(* writes (day / month cells, their classes and listeners, the overlay,    *)
(* the bound input) and its observer registry.                             *)
(*                                                                         *)
(* A JavaScript Date is modelled by its time value in local-time "ticks":  *)
(* TicksPerDay ticks make one day, day number 0 is Monday 2024-01-01, and  *)
(* tick (n * TicksPerDay) is local midnight of day n.  The calendar is the *)
(* Gregorian one.  Only normalizeDate depends on the time zone (it works   *)
(* in UTC); opt.tz is the zone's offset from UTC in ticks.  Daylight       *)
(* saving shifts are not modelled.                                         *)
(***************************************************************************)
EXTENDS Integers, Sequences, FiniteSets, TLC

\* ------------------------------------------------------------------------
\* Bounds of the model
\* ------------------------------------------------------------------------

\* navigation is followed at most this many steps away from the initial view
MaxNav == 1

\* ------------------------------------------------------------------------
\* Dates
\* ------------------------------------------------------------------------

\* resolution of a Date's time value: midnight and noon
TicksPerDay == 2

\* new Date() at construction: December 2024
NowYear == 2024
NowMonth == 11

\* day number 0 is the first of January of the year of construction
EpochYear == NowYear
Years == (EpochYear - 2) .. (EpochYear + 4)

Null == <<>>
Some(t) == <<t>>
Val(o) == o[1]
IsDate(o) == Len(o) = 1

IsLeap(y) == (y % 4 = 0 /\ y % 100 # 0) \/ y % 400 = 0

DaysInMonthTable(y) ==
    <<31, IF IsLeap(y) THEN 29 ELSE 28, 31, 30, 31, 30, 31, 31, 30, 31, 30, 31>>

DaysInYear(y) == IF IsLeap(y) THEN 366 ELSE 365

RECURSIVE DaysBeforeYear(_)
DaysBeforeYear(y) ==
    IF y = EpochYear THEN 0
    ELSE IF y > EpochYear THEN DaysBeforeYear(y - 1) + DaysInYear(y - 1)
    ELSE DaysBeforeYear(y + 1) - DaysInYear(y)

RECURSIVE DaysBeforeMonth(_, _)
DaysBeforeMonth(y, m) ==
    IF m = 0 THEN 0 ELSE DaysBeforeMonth(y, m - 1) + DaysInMonthTable(y)[m]

\* time value of local midnight of the first day of month m of year y
MonthStart ==
    [y \in Years |-> [m \in 0..11 |->
        (DaysBeforeYear(y) + DaysBeforeMonth(y, m)) * TicksPerDay]]

\* new Date(y, m, d): local midnight; month and day overflow roll over
\* (month 12 is January of the next year, day 0 the last day of the
\* previous month)
NewDate(y, m, d) ==
    MonthStart[y + (m \div 12)][m % 12] + (d - 1) * TicksPerDay

DayRange == DaysBeforeYear(EpochYear - 2) .. (DaysBeforeYear(EpochYear + 4) - 1)

\* the year day number n lies in
YearOfDay(n) ==
    CHOOSE y \in Years : DaysBeforeYear(y) <= n /\ n < DaysBeforeYear(y + 1)

\* the month the r-th day (from 0) of year y lies in
MonthOfYearDay(y, r) ==
    CHOOSE m \in 0..11 :
        /\ DaysBeforeMonth(y, m) <= r
        /\ r < DaysBeforeMonth(y, m) + DaysInMonthTable(y)[m + 1]

DateFields(y, m, r) ==
    [year |-> y, month |-> m, date |-> r - DaysBeforeMonth(y, m) + 1]

YearDayFields(y, r) == DateFields(y, MonthOfYearDay(y, r), r)

DayFields(n, y) == YearDayFields(y, n - DaysBeforeYear(y))

\* year, month (0..11) and day of the month of each day number
YMDTable == [n \in DayRange |-> DayFields(n, YearOfDay(n))]

DayOf(t) == t \div TicksPerDay
TimeOfDay(t) == t % TicksPerDay

getFullYear(t) == YMDTable[DayOf(t)].year
getMonth(t) == YMDTable[DayOf(t)].month
getDate(t) == YMDTable[DayOf(t)].date
\* Date.getDay(): 0 is Sunday; day number 0 is a Monday
getDay(t) == (DayOf(t) + 1) % 7

\* date.setDate(d): moves within (or out of) the month, keeps the time of day
setDate(t, d) == t + (d - getDate(t)) * TicksPerDay

\* normalizeDate: setUTCHours(0, 0, 0, 0) on a copy; tz is local minus UTC
normalizeDate(t, tz) == ((t - tz) \div TicksPerDay) * TicksPerDay + tz


\* ------------------------------------------------------------------------
\* Text: a string is a sequence of one-character strings
\* ------------------------------------------------------------------------

Digits == <<"0", "1", "2", "3", "4", "5", "6", "7", "8", "9">>
Digit(n) == Digits[n + 1]

\* String(n) without the padding
Pad2_NoPad(n) == IF n < 10 THEN <<Digit(n)>> ELSE <<Digit(n \div 10), Digit(n % 10)>>

\* String(n).padStart(2, '0') for 0 <= n <= 99
Pad2(n) == <<Digit(n \div 10), Digit(n % 10)>>

\* String(year) for a four-digit year
Str4(y) ==
    <<Digit(y \div 1000), Digit((y \div 100) % 10), Digit((y \div 10) % 10), Digit(y % 10)>>

\* monthNames of formatDate
monthNames ==
    << <<"E", "n", "e">>, <<"F", "e", "b">>, <<"M", "a", "r">>, <<"A", "b", "r">>,
       <<"M", "a", "y">>, <<"J", "u", "n">>, <<"J", "u", "l">>, <<"A", "g", "o">>,
       <<"S", "e", "p">>, <<"O", "c", "t">>, <<"N", "o", "v">>, <<"D", "i", "c">> >>

\* monthNames of updateMonthInput (September is 'Sept' there)
inputMonthNames ==
    [monthNames EXCEPT ![9] = <<"S", "e", "p", "t">>]

Formats == {"DD MMM YYYY", "YYYY-MM-DD", "DD/MM/YYYY", "MM/DD/YYYY", "YYYY/MM/DD"}

\* the switch of formatDate over the format, given the four pieces
formatParts(day, month, numericMonth, year, dateFormat) ==
        CASE dateFormat = "DD MMM YYYY" -> day \o <<" ">> \o month \o <<" ">> \o year
          [] dateFormat = "YYYY-MM-DD" -> year \o <<"-">> \o numericMonth \o <<"-">> \o day
          [] dateFormat = "DD/MM/YYYY" -> day \o <<"/">> \o numericMonth \o <<"/">> \o year
          [] dateFormat = "MM/DD/YYYY" -> numericMonth \o <<"/">> \o day \o <<"/">> \o year
          [] dateFormat = "YYYY/MM/DD" -> year \o <<"/">> \o numericMonth \o <<"/">> \o day
          [] OTHER -> year \o <<"-">> \o numericMonth \o <<"-">> \o day

formatDate(t, dateFormat) ==
    formatParts(Pad2(getDate(t)), monthNames[getMonth(t) + 1],
                Pad2(getMonth(t) + 1), Str4(getFullYear(t)), dateFormat)

\* default of options.dateSeparator
dateSeparator == <<" ", "-", " ">>


\* ------------------------------------------------------------------------
\* The instance.  Each method is an operator from the instance's state s
\* (a record of the fields and of the DOM it owns) to the state it leaves.
\* ------------------------------------------------------------------------

HighlightClasses == {"highlight-start", "highlight-range", "highlight-end"}

\* querySelectorAll('.calendar-day') selects the cells carrying that class
IsDayCell(c) == "calendar-day" \in c.cls

console_error(s, msg) == [s EXCEPT !.reported = Append(@, msg)]

\* getSelectedDates giving the first date for both ends
getSelectedDates_StartTwice(s) ==
    [startDate |-> IF Len(s.selectedDates) >= 1
                   THEN Some(formatDate(s.selectedDates[1], s.opt.dateFormat)) ELSE Null,
     endDate |-> IF Len(s.selectedDates) >= 2
                 THEN Some(formatDate(s.selectedDates[1], s.opt.dateFormat)) ELSE Null]

getSelectedDates(s) ==
    [startDate |-> IF Len(s.selectedDates) >= 1
                   THEN Some(formatDate(s.selectedDates[1], s.opt.dateFormat)) ELSE Null,
     endDate |-> IF Len(s.selectedDates) >= 2
                 THEN Some(formatDate(s.selectedDates[2], s.opt.dateFormat)) ELSE Null]

\* ---- the observer registry ------------------------------------------------

EventNames ==
    {"dateSelected", "rangeSelected", "weekSelected", "monthSelected",
     "renderCompleted", "calendarOpened", "calendarClosed"}

\* this.events = {}: no event has a list of callbacks
NoEvents == [e \in EventNames |-> <<>>]

\* on(event, callback): the list of the event is created on the first
\* registration; an event without a list is one with the empty list here
on(s, event, callback) == [s EXCEPT !.events[event] = Append(@, callback)]

\* A value inside a payload: a Date (time value t), the ISO string that
\* JSON.stringify writes for a Date (t is the instant in UTC ticks), or null
ISOString(utc) == [kind |-> "string", t |-> utc]
JSONNull == [kind |-> "null", t |-> 0]

\* Date.prototype.toJSON, and null for a field that holds no Date
toJSON(o, tz) == IF IsDate(o) THEN ISOString(Val(o) - tz) ELSE JSONNull

\* new Date(isoString): the Date of that instant, in local ticks
parseISO(j, tz) == [kind |-> "Date", t |-> j.t + tz]

\* one field of sanitizedData: startDate and endDate are restored as Dates
\* when they are truthy, every other field stays what JSON.parse gave
reviveField(k, j, tz) ==
    IF k \in {"startDate", "endDate"} /\ j.kind = "string" THEN parseISO(j, tz) ELSE j

\* sanitizedData = JSON.parse(JSON.stringify(data)), dates restored
sanitizedData(data, tz) ==
    [k \in DOMAIN data |-> reviveField(k, toJSON(data[k], tz), tz)]

\* what a callback of the page does with the payload e it receives:
\*   "observe" reads the instance (getSelectedDates() included),
\*   "throw"   throws,
\*   "mutate"  moves every Date it finds in e one day on (e.x.setDate(...))
CallbackKinds == {"observe", "throw", "mutate"}

mutatePayload(e) ==
    [k \in DOMAIN e |->
        IF e[k].kind = "Date" THEN [e[k] EXCEPT !.t = @ + TicksPerDay] ELSE e[k]]

payloadAfter(callback, e) == IF callback = "mutate" THEN mutatePayload(e) ELSE e

\* what a callback can read of the instance while it runs
observe(s) ==
    [selectedDates |-> s.selectedDates, startDate |-> s.startDate,
     endDate |-> s.endDate, inputValue |-> s.inputValue, display |-> s.display,
     selected |-> getSelectedDates(s)]

\* one call of a callback: the payload it was handed, what it could read of
\* the instance, and whether it threw
Delivery(event, index, callback, e, seen) ==
    [event |-> event, index |-> index, callback |-> callback, payload |-> e,
     seen |-> seen, threw |-> callback = "throw"]

\* forEach without the try / catch: the first callback that throws ends
\* the loop
RECURSIVE forEachCallback_NoCatch(_, _, _, _, _)
forEachCallback_NoCatch(callbacks, event, seen, e, index) ==
    IF index > Len(callbacks) THEN <<>>
    ELSE IF callbacks[index] = "throw"
    THEN <<Delivery(event, index, callbacks[index], e, seen)>>
    ELSE <<Delivery(event, index, callbacks[index], e, seen)>>
         \o forEachCallback_NoCatch(callbacks, event, seen,
                                     payloadAfter(callbacks[index], e), index + 1)

\* this.events[event].forEach(callback => { try { callback(sanitizedData) }
\* catch ... }): the calls made, in order.  Every callback gets the same
\* sanitizedData object, so each one sees what the earlier ones did to it;
\* seen is the instance as the callbacks find it
RECURSIVE forEachCallback(_, _, _, _, _)
forEachCallback(callbacks, event, seen, e, index) ==
    IF index > Len(callbacks) THEN <<>>
    ELSE <<Delivery(event, index, callbacks[index], e, seen)>>
         \o forEachCallback(callbacks, event, seen,
                             payloadAfter(callbacks[index], e), index + 1)

\* the console.error of the catch, once for each callback that threw
caughtErrors(calls) ==
    [i \in 1..Cardinality({j \in DOMAIN calls : calls[j].threw}) |->
        "Error en el callback del evento"]

\* the trace an emit leaves: the call itself, the callbacks it invoked and
\* the errors it caught
emitTrace(s, event, data, calls) ==
    [s EXCEPT !.emitted = Append(@, [event |-> event, data |-> data]),
              !.delivered = @ \o calls,
              !.reported = @ \o caughtErrors(calls)]

\* the Dates of the instance after a "mutate" callback was handed the very
\* objects the instance holds
mutateShared(s) ==
    [s EXCEPT !.startDate = IF IsDate(@) THEN Some(Val(@) + TicksPerDay) ELSE @,
              !.endDate = IF IsDate(@) THEN Some(Val(@) + TicksPerDay) ELSE @,
              !.selectedDates = [i \in DOMAIN @ |-> @[i] + TicksPerDay]]

\* emit handing data itself to the callbacks, not a copy
emit_NoCopy(s, event, data) ==
    IF \E i \in DOMAIN s.events[event] : s.events[event][i] = "mutate"
    THEN mutateShared(
             emitTrace(s, event, data,
                 forEachCallback(s.events[event], event, observe(s),
                                 sanitizedData(data, s.opt.tz), 1)))
    ELSE emitTrace(s, event, data,
             forEachCallback(s.events[event], event, observe(s),
                             sanitizedData(data, s.opt.tz), 1))

\* emit(event, data); s.emitted records the call
emit(s, event, data) ==
    emitTrace(s, event, data,
        forEachCallback(s.events[event], event, observe(s),
                        sanitizedData(data, s.opt.tz), 1))

\* this.emit(event, { startDate: this.startDate, endDate: this.endDate })
emitDates(s, event) ==
    emit(s, event, [startDate |-> s.startDate, endDate |-> s.endDate])

triggerRenderCompleted(s) == emitDates(s, "renderCompleted")

isDateDisabled(o, t) ==
    LET normalizedDate == normalizeDate(t, o.tz)
        normalizedMinDate == normalizeDate(o.minDate, o.tz)
        normalizedMaxDate == normalizeDate(o.maxDate, o.tz)
    IN  \/ normalizedDate < normalizedMinDate
        \/ normalizedDate > normalizedMaxDate
        \/ \E d \in o.disabledDates : normalizeDate(d, o.tz) = normalizedDate
        \/ (o.disableWeekends /\ getDay(normalizedDate) \in {0, 6})

\* createDayCell / configureDayCell: a cell of the day table.  arrow is the
\* click listener () => this.selectDate(currentDate), date the Date object
\* that listener and the hover listeners close over; bound is the listener
\* this.selectDate itself, which only the focus handler adds.
configureDayCell(o, currentDate, date) ==
    LET isDisabled == isDateDisabled(o, currentDate)
    IN  [text |-> date,
         date |-> currentDate,
         cls |-> IF isDisabled THEN {"calendar-day", "disabled"} ELSE {"calendar-day"},
         arrow |-> ~isDisabled,
         bound |-> FALSE]

createMonthCell(s, index) ==
    LET monthDate == NewDate(s.currentYear, index, 1)
        endOfMonth == NewDate(s.currentYear, index + 1, 0)
        isDisabled == monthDate > s.opt.maxDate \/ endOfMonth < s.opt.minDate
    IN  [text |-> index,
         date |-> monthDate,
         cls |-> IF isDisabled THEN {"calendar-month", "disabled"} ELSE {"calendar-month"},
         arrow |-> ~isDisabled,
         bound |-> FALSE]

\* applyHighlightClasses never marking the end of the range
applyHighlightClasses_NoEnd(s) ==
    IF ~IsDate(s.startDate) THEN s
    ELSE
      LET startDate == normalizeDate(Val(s.startDate), s.opt.tz)
          hasEnd == IsDate(s.endDate)
          endDate == IF hasEnd THEN normalizeDate(Val(s.endDate), s.opt.tz) ELSE 0
          classFor(cellDate) ==
              IF s.opt.type = "dia"
              THEN IF cellDate = startDate THEN {"highlight-start"} ELSE {}
              ELSE IF s.opt.type \in {"rango", "semana"}
              THEN IF cellDate = startDate THEN {"highlight-start"}
                   ELSE IF hasEnd /\ cellDate > startDate /\ cellDate < endDate
                        THEN {"highlight-range"}
                   ELSE {}
              ELSE {}
      IN  [s EXCEPT !.cells =
            [i \in DOMAIN s.cells |->
               IF IsDayCell(s.cells[i])
               THEN LET cellDate == normalizeDate(
                            NewDate(s.currentYear, s.currentMonth, s.cells[i].text),
                            s.opt.tz)
                    IN  [s.cells[i] EXCEPT
                           !.cls = (@ \ HighlightClasses) \cup classFor(cellDate)]
               ELSE s.cells[i]]]

applyHighlightClasses(s) ==
    IF ~IsDate(s.startDate) THEN s
    ELSE
      LET startDate == normalizeDate(Val(s.startDate), s.opt.tz)
          hasEnd == IsDate(s.endDate)
          endDate == IF hasEnd THEN normalizeDate(Val(s.endDate), s.opt.tz) ELSE 0
          classFor(cellDate) ==
              IF s.opt.type = "dia"
              THEN IF cellDate = startDate THEN {"highlight-start"} ELSE {}
              ELSE IF s.opt.type \in {"rango", "semana"}
              THEN IF cellDate = startDate THEN {"highlight-start"}
                   ELSE IF hasEnd /\ cellDate = endDate THEN {"highlight-end"}
                   ELSE IF hasEnd /\ cellDate > startDate /\ cellDate < endDate
                        THEN {"highlight-range"}
                   ELSE {}
              ELSE {}
      IN  [s EXCEPT !.cells =
            [i \in DOMAIN s.cells |->
               IF IsDayCell(s.cells[i])
               THEN LET cellDate == normalizeDate(
                            NewDate(s.currentYear, s.currentMonth, s.cells[i].text),
                            s.opt.tz)
                    IN  [s.cells[i] EXCEPT
                           !.cls = (@ \ HighlightClasses) \cup classFor(cellDate)]
               ELSE s.cells[i]]]

disableOutOfRangeDates(s, selectedDate) ==
    IF s.opt.type # "rango" THEN s
    ELSE
      LET minAllowedDate == selectedDate + (s.opt.minDays - 1) * TicksPerDay
          maxAllowedDate == selectedDate + (s.opt.maxDays - 1) * TicksPerDay
      IN  [s EXCEPT !.cells =
            [i \in DOMAIN s.cells |->
               LET cellDate == NewDate(s.currentYear, s.currentMonth, s.cells[i].text)
               IN  IF /\ IsDayCell(s.cells[i])
                      /\ \/ cellDate < selectedDate
                         \/ cellDate < minAllowedDate
                         \/ cellDate > maxAllowedDate
                   THEN [s.cells[i] EXCEPT !.cls = @ \cup {"disabled"}, !.bound = FALSE]
                   ELSE s.cells[i]]]

disableOutOfRangeDatesIfNeeded(s) ==
    IF Len(s.selectedDates) > 0
    THEN disableOutOfRangeDates(s, s.selectedDates[1])
    ELSE s

\* renderTable: the twelve month cells, or one cell per day of the month
\* shown (renderDayTableBody gives days 1..daysInMonth a cell each)
renderTable(s) ==
    IF s.opt.type = "mes"
    THEN [s EXCEPT !.cells = [index \in 0..11 |-> createMonthCell(s, index)]]
    ELSE LET daysInMonth == getDate(NewDate(s.currentYear, s.currentMonth + 1, 0))
             t == [s EXCEPT !.cells =
                     [date \in 1..daysInMonth |->
                        configureDayCell(s.opt,
                            NewDate(s.currentYear, s.currentMonth, date), date)]]
         IN  applyHighlightClasses(t)

renderCalendar(s) ==
    triggerRenderCompleted(
        applyHighlightClasses(
            disableOutOfRangeDatesIfNeeded(
                renderTable([s EXCEPT !.tooltip = "absent"]))))


\* ---- the bound input ----------------------------------------------------

setPlaceholder(s) == [s EXCEPT !.inputValue = <<>>, !.placeholderSet = TRUE]

updateMonthInput(s) ==
    IF IsDate(s.startDate) /\ IsDate(s.endDate)
    THEN [s EXCEPT !.inputValue =
            inputMonthNames[getMonth(Val(s.startDate)) + 1] \o <<" ">>
                \o Str4(getFullYear(Val(s.startDate)))]
    ELSE [s EXCEPT !.inputValue = <<>>]

updateRangeOrWeekInput(s) ==
    IF IsDate(s.startDate) /\ IsDate(s.endDate)
    THEN [s EXCEPT !.inputValue =
            formatDate(Val(s.startDate), s.opt.dateFormat) \o dateSeparator
                \o formatDate(Val(s.endDate), s.opt.dateFormat)]
    ELSE [s EXCEPT !.inputValue = <<>>]

updateDayInput(s) ==
    IF IsDate(s.startDate)
    THEN [s EXCEPT !.inputValue = formatDate(Val(s.startDate), s.opt.dateFormat)]
    ELSE [s EXCEPT !.inputValue = <<>>]

updateInput(s) ==
    IF s.opt.fechaVacia THEN setPlaceholder(s)
    ELSE CASE s.opt.type = "mes" -> updateMonthInput(s)
           [] s.opt.type \in {"rango", "semana"} -> updateRangeOrWeekInput(s)
           [] s.opt.type = "dia" -> updateDayInput(s)
           [] OTHER -> s

\* ---- weeks ----------------------------------------------------------------

\* getStartOfWeek taking Sunday for the first day of the week
getStartOfWeek_SundayFirst(t) ==
    LET day == getDay(t)
        diff == getDate(t) - day
    IN  setDate(t, diff)

\* getStartOfWeek(date): date.setDate(diff) overwrites the caller's Date
\* object with the Monday, and a copy of it is returned
getStartOfWeek(t) ==
    LET day == getDay(t)
        diff == getDate(t) - day + (IF day = 0 THEN -6 ELSE 1)
    IN  setDate(t, diff)

\* getEndOfWeek(date), given the value the caller's Date object holds when it
\* is called
getEndOfWeek(t) == getStartOfWeek(t) + 6 * TicksPerDay

\* ---- selectDate -------------------------------------------------------------

\* an argument of selectDate: a Date (kind "Date", time value t), an
\* Invalid Date, or the MouseEvent a listener registered as this.selectDate
\* receives
DateArg(t) == [kind |-> "Date", t |-> t]
MouseEventArg == [kind |-> "MouseEvent", t |-> 0]

instanceofDate(arg) == arg.kind \in {"Date", "InvalidDate"}

validateDate(arg) == instanceofDate(arg) /\ arg.kind # "InvalidDate"

\* selectDateDay pushing the date instead of replacing the selection
selectDateDay_Push(s, date) ==
    emit([updateInput([s EXCEPT !.selectedDates = Append(@, date),
                                !.startDate = Some(date),
                                !.endDate = Null])
            EXCEPT !.display = "none"],
         "dateSelected", [date |-> Some(date)])

selectDateDay(s, date) ==
    emit([updateInput([s EXCEPT !.selectedDates = <<date>>,
                                !.startDate = Some(date),
                                !.endDate = Null])
            EXCEPT !.display = "none"],
         "dateSelected", [date |-> Some(date)])

\* selectDateRangeStart leaving endDate as it was
selectDateRangeStart_KeepsEndDate(s, date) ==
    LET t == [s EXCEPT !.selectedDates = <<date>>,
                       !.startDate = Some(date)]
        u == [t EXCEPT !.cells =
                [i \in DOMAIN t.cells |->
                   IF IsDayCell(t.cells[i])
                   THEN [t.cells[i] EXCEPT !.cls =
                           (@ \ HighlightClasses) \cup
                           (IF NewDate(t.currentYear, t.currentMonth, t.cells[i].text) = date
                            THEN {"highlight-start"} ELSE {})]
                   ELSE t.cells[i]]]
    IN  disableOutOfRangeDates(u, date)

selectDateRangeStart(s, date) ==
    LET t == [s EXCEPT !.selectedDates = <<date>>,
                       !.startDate = Some(date),
                       !.endDate = Null]
        u == [t EXCEPT !.cells =
                [i \in DOMAIN t.cells |->
                   IF IsDayCell(t.cells[i])
                   THEN [t.cells[i] EXCEPT !.cls =
                           (@ \ HighlightClasses) \cup
                           (IF NewDate(t.currentYear, t.currentMonth, t.cells[i].text) = date
                            THEN {"highlight-start"} ELSE {})]
                   ELSE t.cells[i]]]
    IN  disableOutOfRangeDates(u, date)

\* selectedDates.push(date); selectedDates.sort(...)
SortPair(a, b) == IF a <= b THEN <<a, b>> ELSE <<b, a>>

\* closeAndEmit emitting before the input is written and the overlay hidden
closeAndEmit_EmitFirst(s, event) ==
    [updateInput(emitDates(s, event)) EXCEPT !.display = "none"]

\* the tail shared by the committing branches of selectDate:
\* this.updateInput(); calendarContainer.style.display = 'none';
\* this.emit(event, { startDate, endDate })
closeAndEmit(s, event) ==
    emitDates([updateInput(s) EXCEPT !.display = "none"], event)

\* selectDateRangeEnd reading startDate and endDate from the wrong indices
selectDateRangeEnd_Swapped(s, date) ==
    IF date < s.selectedDates[1]
    THEN console_error(s, "La fecha final no puede ser anterior a la fecha inicial.")
    ELSE LET sorted == SortPair(s.selectedDates[1], date)
         IN  closeAndEmit([s EXCEPT !.selectedDates = sorted,
                                    !.startDate = Some(sorted[2]),
                                    !.endDate = Some(sorted[1])],
                          "rangeSelected")

\* selectDateRangeEnd without the end-before-start check
selectDateRangeEnd_NoOrderCheck(s, date) ==
    LET sorted == SortPair(s.selectedDates[1], date)
    IN  closeAndEmit([s EXCEPT !.selectedDates = sorted,
                               !.startDate = Some(sorted[1]),
                               !.endDate = Some(sorted[2])],
                     "rangeSelected")

selectDateRangeEnd(s, date) ==
    IF date < s.selectedDates[1]
    THEN console_error(s, "La fecha final no puede ser anterior a la fecha inicial.")
    ELSE LET sorted == SortPair(s.selectedDates[1], date)
         IN  closeAndEmit([s EXCEPT !.selectedDates = sorted,
                                    !.startDate = Some(sorted[1]),
                                    !.endDate = Some(sorted[2])],
                          "rangeSelected")

\* cell is the cell whose listener passed its Date object: getStartOfWeek
\* writes the Monday into that object
selectWeek(s, cell, startOfWeek, endOfWeek) ==
    closeAndEmit([s EXCEPT !.cells[cell].date = getStartOfWeek(startOfWeek),
                           !.selectedDates = <<startOfWeek, endOfWeek>>,
                           !.startDate = Some(startOfWeek),
                           !.endDate = Some(endOfWeek)],
                 "weekSelected")

weekFrom(s, cell, startOfWeek) ==
    selectWeek(s, cell, startOfWeek, getEndOfWeek(startOfWeek))

selectDateWeek(s, date, cell) == weekFrom(s, cell, getStartOfWeek(date))

\* adjustedEndOfMonth: the end of the month, or maxDate if that is earlier
adjustEndOfMonth(endOfMonth, maxDate) ==
    IF endOfMonth > maxDate THEN maxDate ELSE endOfMonth

selectMonth(s, startOfMonth, endOfMonth) ==
    closeAndEmit([s EXCEPT !.selectedDates = <<startOfMonth, endOfMonth>>,
                           !.startDate = Some(startOfMonth),
                           !.endDate = Some(endOfMonth)],
                 "monthSelected")

\* selectDateMonth without the adjustment to maxDate
selectDateMonth_NoClamp(s, date) ==
    selectMonth(s, NewDate(getFullYear(date), getMonth(date), 1),
                   NewDate(getFullYear(date), getMonth(date) + 1, 0))

selectDateMonth(s, date) ==
    selectMonth(s, NewDate(getFullYear(date), getMonth(date), 1),
                   adjustEndOfMonth(NewDate(getFullYear(date), getMonth(date) + 1, 0),
                                    s.opt.maxDate))

OutOfBounds(o, date) == date < o.minDate \/ date > o.maxDate

\* selectDate without the check against minDate and maxDate
selectDate_NoBoundsCheck(s, arg, cell) ==
    IF ~instanceofDate(arg)
    THEN console_error(s, "El argumento proporcionado no es una instancia de Date:")
    ELSE IF ~validateDate(arg)
    THEN console_error(s, "Fecha invalida proporcionada.")
    ELSE CASE s.opt.type = "dia" -> selectDateDay(s, arg.t)
           [] s.opt.type = "rango" ->
                IF Len(s.selectedDates) = 0 \/ Len(s.selectedDates) = 2
                THEN selectDateRangeStart(s, arg.t)
                ELSE selectDateRangeEnd(s, arg.t)
           [] s.opt.type = "semana" -> selectDateWeek(s, arg.t, cell)
           [] s.opt.type = "mes" -> selectDateMonth(s, arg.t)
           [] OTHER -> s

\* selectDate starting a new range only when nothing is selected
selectDate_OnlyEmptyStartsRange(s, arg, cell) ==
    IF ~instanceofDate(arg)
    THEN console_error(s, "El argumento proporcionado no es una instancia de Date:")
    ELSE IF ~validateDate(arg)
    THEN console_error(s, "Fecha invalida proporcionada.")
    ELSE IF OutOfBounds(s.opt, arg.t)
    THEN console_error(s, "La fecha seleccionada esta fuera del rango permitido.")
    ELSE CASE s.opt.type = "dia" -> selectDateDay(s, arg.t)
           [] s.opt.type = "rango" ->
                IF Len(s.selectedDates) = 0
                THEN selectDateRangeStart(s, arg.t)
                ELSE selectDateRangeEnd(s, arg.t)
           [] s.opt.type = "semana" -> selectDateWeek(s, arg.t, cell)
           [] s.opt.type = "mes" -> selectDateMonth(s, arg.t)
           [] OTHER -> s

selectDate(s, arg, cell) ==
    IF ~instanceofDate(arg)
    THEN console_error(s, "El argumento proporcionado no es una instancia de Date:")
    ELSE IF ~validateDate(arg)
    THEN console_error(s, "Fecha invalida proporcionada.")
    ELSE IF OutOfBounds(s.opt, arg.t)
    THEN console_error(s, "La fecha seleccionada esta fuera del rango permitido.")
    ELSE CASE s.opt.type = "dia" -> selectDateDay(s, arg.t)
           [] s.opt.type = "rango" ->
                IF Len(s.selectedDates) = 0 \/ Len(s.selectedDates) = 2
                THEN selectDateRangeStart(s, arg.t)
                ELSE selectDateRangeEnd(s, arg.t)
           [] s.opt.type = "semana" -> selectDateWeek(s, arg.t, cell)
           [] s.opt.type = "mes" -> selectDateMonth(s, arg.t)
           [] OTHER -> s


\* ---- public operations ---------------------------------------------------------

clearSelection(s) ==
    renderCalendar(updateInput([s EXCEPT !.selectedDates = <<>>]))

\* ---- hover preview ----------------------------------------------------------------

hideTooltip(s) ==
    IF s.tooltip = "absent" THEN s ELSE [s EXCEPT !.tooltip = "none"]

showTooltip(s) == [s EXCEPT !.tooltip = "visible"]

\* Math.abs(Math.ceil((b - a) / one day)) + 1
CeilDays(x) == -((-x) \div TicksPerDay)
Abs(x) == IF x < 0 THEN -x ELSE x
InclusiveDays(a, b) == Abs(CeilDays(b - a)) + 1

\* the cell-by-cell loop shared by highlightWeek and highlightRange
previewClasses(s, from, to) ==
    [s EXCEPT !.cells =
        [i \in DOMAIN s.cells |->
           IF IsDayCell(s.cells[i])
           THEN LET cellDate == NewDate(s.currentYear, s.currentMonth, s.cells[i].text)
                IN  [s.cells[i] EXCEPT !.cls =
                       (@ \ HighlightClasses) \cup
                       (IF cellDate = from THEN {"highlight-start"}
                        ELSE IF cellDate = to THEN {"highlight-end"}
                        ELSE IF cellDate > from /\ cellDate < to THEN {"highlight-range"}
                        ELSE {})]
           ELSE s.cells[i]]]

previewWeek(s, startOfWeek, endOfWeek) ==
    IF s.opt.maxDays # 0 /\ InclusiveDays(startOfWeek, endOfWeek) > s.opt.maxDays
    THEN s
    ELSE previewClasses(s, startOfWeek, endOfWeek)

previewWeekFrom(s, cell, startOfWeek) ==
    previewWeek([s EXCEPT !.cells[cell].date = getStartOfWeek(startOfWeek)],
                startOfWeek, getEndOfWeek(startOfWeek))

\* getStartOfWeek writes the Monday into the Date object of the cell
highlightWeek(s, cell) ==
    previewWeekFrom(s, cell, getStartOfWeek(s.cells[cell].date))

\* highlightRange without the check against maxDays
highlightRange_NoCap(s, endDate) ==
    IF Len(s.selectedDates) = 0 THEN hideTooltip(s)
    ELSE IF s.opt.enableTooltip
         THEN showTooltip(previewClasses(s, s.selectedDates[1], endDate))
         ELSE previewClasses(s, s.selectedDates[1], endDate)

highlightRange(s, endDate) ==
    IF Len(s.selectedDates) = 0 THEN hideTooltip(s)
    ELSE LET startDate == s.selectedDates[1]
             diff == InclusiveDays(startDate, endDate)
         IN  IF s.opt.maxDays # 0 /\ diff > s.opt.maxDays THEN hideTooltip(s)
             ELSE IF s.opt.enableTooltip
                  THEN showTooltip(previewClasses(s, startDate, endDate))
                  ELSE previewClasses(s, startDate, endDate)

\* clearHighlight dropping the selection with the classes
clearHighlight_DropsSelection(s) ==
    [s EXCEPT !.selectedDates = <<>>,
              !.cells =
        [i \in DOMAIN s.cells |->
           IF IsDayCell(s.cells[i])
           THEN [s.cells[i] EXCEPT !.cls = @ \ HighlightClasses]
           ELSE s.cells[i]]]

clearHighlight(s) ==
    [s EXCEPT !.cells =
        [i \in DOMAIN s.cells |->
           IF IsDayCell(s.cells[i])
           THEN [s.cells[i] EXCEPT !.cls = @ \ HighlightClasses]
           ELSE s.cells[i]]]

\* ---- navigation ----------------------------------------------------------------------

\* shiftMonth wrapping the month without stepping the year
shiftMonth_NoYearRoll(s, m) ==
    IF m < 0 THEN [s EXCEPT !.currentMonth = 11]
    ELSE IF m > 11 THEN [s EXCEPT !.currentMonth = 0]
    ELSE [s EXCEPT !.currentMonth = m]

\* currentMonth += offset, wrapping into the previous or next year
shiftMonth(s, m) ==
    IF m < 0 THEN [s EXCEPT !.currentMonth = 11, !.currentYear = @ - 1]
    ELSE IF m > 11 THEN [s EXCEPT !.currentMonth = 0, !.currentYear = @ + 1]
    ELSE [s EXCEPT !.currentMonth = m]

\* changeMonth dropping the selection and rewriting the input
changeMonth_DropsSelection(s, offset) ==
    disableOutOfRangeDatesIfNeeded(
        renderCalendar(shiftMonth(
            updateInput([s EXCEPT !.selectedDates = <<>>, !.startDate = Null,
                                  !.endDate = Null]),
            s.currentMonth + offset)))

changeMonth(s, offset) ==
    disableOutOfRangeDatesIfNeeded(
        renderCalendar(shiftMonth(s, s.currentMonth + offset)))

changeYear(s, offset) == renderCalendar([s EXCEPT !.currentYear = @ + offset])

navigate(s, offset) ==
    IF s.opt.type = "mes" THEN changeYear(s, offset) ELSE changeMonth(s, offset)

\* ---- listeners of attachInputEvents -----------------------------------------------------

\* the 'focus' listener of the input
\* the isDisabled of the focus listener: the checks of isDateDisabled on
\* the dates as they are, not normalized
focusIsDisabled(o, cellDate) ==
    \/ cellDate < o.minDate
    \/ cellDate > o.maxDate
    \/ \E d \in o.disabledDates : d = cellDate
    \/ (o.disableWeekends /\ getDay(cellDate) \in {0, 6})

\* the loop of the focus listener over the day cells
focusCells(s) ==
    [s EXCEPT !.cells =
        [i \in DOMAIN s.cells |->
           IF IsDayCell(s.cells[i])
           THEN IF ~focusIsDisabled(s.opt,
                        NewDate(s.currentYear, s.currentMonth, s.cells[i].text))
                THEN [s.cells[i] EXCEPT !.cls = @ \ {"disabled"}, !.bound = TRUE]
                ELSE [s.cells[i] EXCEPT !.cls = @ \cup {"disabled"}, !.bound = FALSE]
           ELSE s.cells[i]]]

focusHandler(s) ==
    emit([focusCells(renderCalendar(s)) EXCEPT !.display = "block", !.open = TRUE],
         "calendarOpened", <<>>)

\* globalClickHandler, and the second (anonymous) document listener, for a
\* click whose target is outside the container and is not the input
globalClickHandler(s) ==
    emit([s EXCEPT !.display = "none", !.open = FALSE], "calendarClosed", <<>>)

\* removeEventListener takes globalClickHandler off document; the listener
\* attachInputEvents registered as an arrow function stays.  replaceChildren
\* empties the container (the tooltip is one of its children).
destroy(s) ==
    [s EXCEPT !.docListeners = SelectSeq(@, LAMBDA l : l # "globalClickHandler"),
              !.cells = <<>>,
              !.tooltip = "absent",
              !.events = NoEvents]

\* ---- updateOptions (the revision of the class that has it) ------------------

ModeNames == {"rango", "dia", "semana", "mes"}

\* the keys of allowedKeys whose options the model carries
allowedKeys ==
    {"type", "minDays", "maxDays", "startDate", "endDate", "minDate", "maxDate",
     "dateFormat", "disabledDates", "disableWeekends", "enableTooltip", "fechaVacia"}

\* filteredOptions: the allowed keys of newOptions whose value has the
\* expected type (a type that is not one of the four modes is dropped)
filteredOptions(newOptions) ==
    [k \in {a \in DOMAIN newOptions \cap allowedKeys :
               a = "type" => newOptions[a] \in ModeNames} |-> newOptions[k]]

\* the additional validations: the message of the Error thrown, or Null
updateOptionsError(s, f) ==
    IF {"minDays", "maxDays"} \subseteq DOMAIN f /\ f["minDays"] > f["maxDays"]
    THEN Some("minDays no puede ser mayor que maxDays.")
    ELSE IF "startDate" \in DOMAIN f
            /\ (f["startDate"] < s.opt.minDate \/ f["startDate"] > s.opt.maxDate)
    THEN Some("startDate esta fuera del rango permitido.")
    ELSE IF "endDate" \in DOMAIN f
            /\ (f["endDate"] < s.opt.minDate \/ f["endDate"] > s.opt.maxDate)
    THEN Some("endDate esta fuera del rango permitido.")
    ELSE Null

Given(f, key, old) == IF key \in DOMAIN f THEN f[key] ELSE old

\* Object.assign(this, filteredOptions)
Object_assign(s, f) ==
    [s EXCEPT !.opt.type = Given(f, "type", @),
              !.opt.minDays = Given(f, "minDays", @),
              !.opt.maxDays = Given(f, "maxDays", @),
              !.opt.minDate = Given(f, "minDate", @),
              !.opt.maxDate = Given(f, "maxDate", @),
              !.opt.dateFormat = Given(f, "dateFormat", @),
              !.opt.disabledDates = Given(f, "disabledDates", @),
              !.opt.disableWeekends = Given(f, "disableWeekends", @),
              !.opt.enableTooltip = Given(f, "enableTooltip", @),
              !.opt.fechaVacia = Given(f, "fechaVacia", @),
              !.startDate = IF "startDate" \in DOMAIN f THEN Some(f["startDate"]) ELSE @,
              !.endDate = IF "endDate" \in DOMAIN f THEN Some(f["endDate"]) ELSE @]

\* updateOptions when no validation throws
updateOptions(s, newOptions) ==
    renderCalendar(Object_assign(s, filteredOptions(newOptions)))


\* ------------------------------------------------------------------------
\* Configurations (the options handed to the constructor, defaults applied)
\* ------------------------------------------------------------------------

\* the selectable window: Sunday 2024-12-29 .. Friday 2025-01-03 for the day
\* and range calendars, Monday 2024-12-30 .. Friday 2025-01-03 for the week
\* calendar, 2024-11-15 .. 2025-01-05 for the month calendar
MinDateOf(type) ==
    CASE type = "mes" -> NewDate(2024, 10, 15)
      [] type = "semana" -> NewDate(2024, 11, 30)
      [] OTHER -> NewDate(2024, 11, 29)

MaxDateOf(type) ==
    IF type = "mes" THEN NewDate(2025, 0, 5) ELSE NewDate(2025, 0, 3)

Noon == TicksPerDay \div 2

BaseOptions(type) ==
    [type |-> type,
     minDays |-> 1,
     maxDays |-> 30,
     startDate |-> Null,
     endDate |-> Null,
     minDate |-> MinDateOf(type),
     maxDate |-> MaxDateOf(type),
     dateFormat |-> "YYYY-MM-DD",
     disabledDates |-> {},
     disableWeekends |-> FALSE,
     enableTooltip |-> TRUE,
     fechaVacia |-> TRUE,
     tz |-> 0]

\* one option changed at a time (and the weekend rule in a zone that is not
\* UTC)
Variants(b) ==
    {b,
     [b EXCEPT !.minDays = 2, !.maxDays = 4],
     [b EXCEPT !.minDays = 5, !.maxDays = 3],
     [b EXCEPT !.startDate = Some(NewDate(2024, 11, 30)),
               !.endDate = Some(NewDate(2025, 0, 2))],
     [b EXCEPT !.startDate = Some(NewDate(2025, 0, 2)),
               !.endDate = Some(NewDate(2024, 11, 30))],
     [b EXCEPT !.startDate = Some(NewDate(2024, 10, 1))],
     [b EXCEPT !.endDate = Some(NewDate(2025, 0, 20))],
     [b EXCEPT !.endDate = Some(NewDate(2025, 0, 2))],
     [b EXCEPT !.minDate = @ + Noon],
     [b EXCEPT !.maxDate = @ + Noon],
     [b EXCEPT !.disabledDates = {NewDate(2025, 0, 2)}],
     [b EXCEPT !.disableWeekends = TRUE],
     [b EXCEPT !.fechaVacia = FALSE],
     [b EXCEPT !.fechaVacia = FALSE, !.dateFormat = "DD MMM YYYY"],
     [b EXCEPT !.tz = 1],
     [b EXCEPT !.tz = 1, !.disableWeekends = TRUE]}
    \cup (IF b.type = "semana"
          THEN {[b EXCEPT !.minDate = @ + TicksPerDay],
                [b EXCEPT !.maxDate = @ + 2 * TicksPerDay]}
          ELSE {})
    \cup (IF b.type \in {"dia", "rango"}
          THEN {[b EXCEPT !.tz = 1, !.disableWeekends = TRUE,
                          !.maxDate = @ + TicksPerDay]}
          ELSE {})

Types == {"dia", "rango", "semana", "mes"}

Configs == UNION {Variants(BaseOptions(type)) : type \in Types}

\* the event a calendar of each type emits when a selection is committed
CommitEvent(type) ==
    CASE type = "dia" -> "dateSelected"
      [] type = "rango" -> "rangeSelected"
      [] type = "semana" -> "weekSelected"
      [] type = "mes" -> "monthSelected"

\* the calls a page makes with its calendar: on(event, callback),
\* triggerRenderCompleted() and updateOptions(newOptions)
NoOptions == [k \in {} |-> 0]
Callback(event, kind) ==
    [op |-> "on", event |-> event, callback |-> kind, newOptions |-> NoOptions]
Trigger ==
    [op |-> "triggerRenderCompleted", event |-> "renderCompleted",
     callback |-> "observe", newOptions |-> NoOptions]
Update(newOptions) ==
    [op |-> "updateOptions", event |-> "renderCompleted", callback |-> "observe",
     newOptions |-> newOptions]

\* the calls of on() a page makes with its calendar, in order
Scripts(type) ==
    {<<Callback(CommitEvent(type), "observe")>>,
     <<Callback(CommitEvent(type), "throw"), Callback(CommitEvent(type), "observe")>>,
     <<Callback(CommitEvent(type), "mutate"), Callback(CommitEvent(type), "observe")>>}

\* the pages that reconfigure their calendar: each calls updateOptions once
\* or twice, at any moment after the page has loaded
UpdateScripts(type) ==
    IF type = "dia"
    THEN {<<Update([type |-> "mes"])>>,
          <<Update([type |-> "anual", disableWeekends |-> TRUE])>>,
          <<Update([minDays |-> 5, maxDays |-> 3]), Update([maxDays |-> 3]),
            Update([minDays |-> 5])>>,
          <<Callback("renderCompleted", "observe"), Trigger,
            Update([fechaVacia |-> TRUE])>>}
    ELSE {}

\* the pages with callbacks use the calendar that writes its input
ScriptsOf(o) ==
    IF o = [BaseOptions(o.type) EXCEPT !.fechaVacia = FALSE]
    THEN {<<>>} \cup Scripts(o.type) \cup UpdateScripts(o.type)
    ELSE {<<>>}

\* ------------------------------------------------------------------------
\* State
\* ------------------------------------------------------------------------

VARIABLES
    status,         \* "new", "ready" (constructed), "failed" (constructor threw)
                    \* or "destroyed"
    opt,            \* the configuration fields of the instance
    startDate,      \* this.startDate: Null or Some(time value)
    endDate,        \* this.endDate
    selectedDates,  \* this.selectedDates: a sequence of time values
    currentMonth,   \* this.currentMonth, 0..11
    currentYear,    \* this.currentYear
    display,        \* calendarContainer.style.display
    open,           \* calendarContainer carries the class 'open'
    inputValue,     \* inputElement.value
    placeholderSet, \* inputElement.placeholder was written
    cells,          \* the cells of the rendered table, by day (or month index)
    tooltip,        \* the .calendar-tooltip element: "absent", "visible", "none"
    docListeners,   \* the click listeners registered on document
    events,         \* this.events: the callbacks registered for each event, in order
    script,         \* the calls the page has still to make, in order
    delivered,      \* the callbacks the last step invoked, in order
    hovered,        \* the cell the pointer is on, Null or Some(cell)
    queue,          \* listeners of the click being dispatched that have not run yet
    emitted,        \* the calls of emit made by the last step, in order
    reported,       \* the console.error messages of the last step
    result,         \* the last call of formatDate or getSelectedDates with the
                    \* value it returned, or Null
    last            \* the last step: operation, cell, selectDate call, thrown error

vars == <<status, opt, startDate, endDate, selectedDates, currentMonth, currentYear,
          display, open, inputValue, placeholderSet, cells, tooltip, docListeners,
          events, script, delivered, hovered, queue, emitted, reported, result,
          last>>

\* the instance as the record the methods work on; every step starts with
\* nothing emitted and nothing reported
This ==
    [opt |-> opt, startDate |-> startDate, endDate |-> endDate,
     selectedDates |-> selectedDates, currentMonth |-> currentMonth,
     currentYear |-> currentYear, display |-> display, open |-> open,
     inputValue |-> inputValue, placeholderSet |-> placeholderSet,
     cells |-> cells, tooltip |-> tooltip, docListeners |-> docListeners,
     events |-> events, delivered |-> <<>>,
     emitted |-> <<>>, reported |-> <<>>]

Become(t) ==
    \E s \in {t} :
    /\ opt' = s.opt
    /\ startDate' = s.startDate
    /\ endDate' = s.endDate
    /\ selectedDates' = s.selectedDates
    /\ currentMonth' = s.currentMonth
    /\ currentYear' = s.currentYear
    /\ display' = s.display
    /\ open' = s.open
    /\ inputValue' = s.inputValue
    /\ placeholderSet' = s.placeholderSet
    /\ cells' = s.cells
    /\ tooltip' = s.tooltip
    /\ docListeners' = s.docListeners
    /\ events' = s.events
    /\ delivered' = s.delivered
    /\ emitted' = s.emitted
    /\ reported' = s.reported

NoCall == [kind |-> "none", t |-> 0]
NoCell == -1

\* had: the length of selectedDates when the step began
Step(op, cell, call, thrown) ==
    [op |-> op, cell |-> cell, call |-> call, thrown |-> thrown,
     had |-> Len(selectedDates)]

Init ==
    /\ status = "new"
    /\ opt \in Configs
    /\ script \in ScriptsOf(opt)
    /\ events = NoEvents
    /\ delivered = <<>>
    /\ startDate = Null
    /\ endDate = Null
    /\ selectedDates = <<>>
    /\ currentMonth = NowMonth
    /\ currentYear = NowYear
    /\ display = ""
    /\ open = FALSE
    /\ inputValue = <<>>
    /\ placeholderSet = FALSE
    /\ cells = <<>>
    /\ tooltip = "absent"
    /\ docListeners = <<>>
    /\ hovered = Null
    /\ queue = <<>>
    /\ emitted = <<>>
    /\ reported = <<>>
    /\ result = Null
    /\ last = Step("none", NoCell, NoCall, Null)


\* ------------------------------------------------------------------------
\* Construction
\* ------------------------------------------------------------------------

\* the validations of the constructor without the one of endDate
constructorValidation_NoEndDate(o) ==
    IF o.minDays > o.maxDays
    THEN Some("minDays no puede ser mayor que maxDays.")
    ELSE IF IsDate(o.startDate) /\ OutOfBounds(o, Val(o.startDate))
    THEN Some("startDate esta fuera del rango permitido.")
    ELSE Null

\* the initial validations of the constructor: the message of the Error
\* thrown, or Null
constructorValidation(o) ==
    IF o.minDays > o.maxDays
    THEN Some("minDays no puede ser mayor que maxDays.")
    ELSE IF IsDate(o.startDate) /\ OutOfBounds(o, Val(o.startDate))
    THEN Some("startDate esta fuera del rango permitido.")
    ELSE IF IsDate(o.endDate) /\ OutOfBounds(o, Val(o.endDate))
    THEN Some("endDate esta fuera del rango permitido.")
    ELSE Null

attachInputEvents(s) ==
    [s EXCEPT !.docListeners = @ \o <<"globalClickHandler", "anonymous">>]

\* if (this.startDate) this.updateInput()
updateInputIfPreset(s) == IF IsDate(s.startDate) THEN updateInput(s) ELSE s

init(s) ==
    emitDates(
        updateInput([updateInputIfPreset(renderCalendar(attachInputEvents(s)))
                        EXCEPT !.display = "none"]),
        "renderCompleted")

\* the constructor registering a renderCompleted callback before init()
constructor_RegistersBeforeInit(s) ==
    LET o == s.opt
        a == [s EXCEPT !.startDate = o.startDate,
                       !.endDate = IF o.type = "dia" THEN Null ELSE o.endDate,
                       !.selectedDates = <<>>,
                       !.events = [NoEvents EXCEPT !["renderCompleted"] = <<"observe">>],
                       !.currentMonth = NowMonth,
                       !.currentYear = NowYear]
    IN  updateInput(init(a))

constructor(s) ==
    LET o == s.opt
        a == [s EXCEPT !.startDate = o.startDate,
                       !.endDate = IF o.type = "dia" THEN Null ELSE o.endDate,
                       !.selectedDates = <<>>,
                       !.events = NoEvents,
                       !.currentMonth = NowMonth,
                       !.currentYear = NowYear]
    IN  updateInput(init(a))

Construct ==
    /\ status = "new"
    /\ LET error == constructorValidation(opt)
       IN  IF IsDate(error)
           THEN /\ status' = "failed"
                /\ Become(This)
                /\ last' = Step("constructor", NoCell, NoCall, error)
           ELSE /\ status' = "ready"
                /\ Become(constructor(This))
                /\ last' = Step("constructor", NoCell, NoCall, Null)
    /\ UNCHANGED <<result, hovered, queue, script>>

\* ------------------------------------------------------------------------
\* User events and public operations
\* ------------------------------------------------------------------------

\* the page's next call belongs to its start-up code, which runs in one
\* piece with the constructor
Pending == script # <<>> /\ Head(script).op # "updateOptions"

\* the start-up code of the page has run to completion and no click is
\* being dispatched
Idle == status = "ready" /\ ~Pending /\ queue = <<>>

\* the overlay is shown, so its cells and buttons can be reached
Shown == display = "block"

\* .calendar-day.disabled has pointer-events: none (styles/style.css)
Reachable(i) ==
    /\ i \in DOMAIN cells
    /\ ~({"calendar-day", "disabled"} \subseteq cells[i].cls)

\* the page registers its next callback
On ==
    /\ status = "ready"
    /\ script # <<>>
    /\ Head(script).op = "on"
    /\ Become(on(This, Head(script).event, Head(script).callback))
    /\ script' = Tail(script)
    /\ last' = Step("on", NoCell, NoCall, Null)
    /\ UNCHANGED <<result, status, hovered, queue>>

\* the page calls triggerRenderCompleted()
TriggerRenderCompleted ==
    /\ status = "ready"
    /\ script # <<>>
    /\ Head(script).op = "triggerRenderCompleted"
    /\ Become(triggerRenderCompleted(This))
    /\ script' = Tail(script)
    /\ last' = Step("triggerRenderCompleted", NoCell, NoCall, Null)
    /\ UNCHANGED <<result, status, hovered, queue>>

\* the page calls updateOptions(newOptions); an Error leaves the instance
\* as it was
UpdateOptions ==
    /\ Idle
    /\ script # <<>>
    /\ Head(script).op = "updateOptions"
    /\ LET error == updateOptionsError(This, filteredOptions(Head(script).newOptions))
       IN  IF IsDate(error)
           THEN /\ Become(This)
                /\ last' = Step("updateOptions", NoCell, NoCall, error)
           ELSE /\ Become(updateOptions(This, Head(script).newOptions))
                /\ last' = Step("updateOptions", NoCell, NoCall, Null)
    /\ script' = Tail(script)
    /\ hovered' = Null
    /\ UNCHANGED <<result, status, queue>>

\* the input receives focus
Focus ==
    /\ Idle
    /\ Become(focusHandler(This))
    /\ hovered' = Null
    /\ last' = Step("focus", NoCell, NoCall, Null)
    /\ UNCHANGED <<result, status, queue, script>>

\* distance of the view from the month (or year) shown at construction
ViewOffset(y, m) ==
    IF opt.type = "mes" THEN y - NowYear
    ELSE (y - NowYear) * 12 + (m - NowMonth)

\* a click on the previous (-1) or next (+1) button of the header
Navigate(offset) ==
    /\ Idle
    /\ Shown
    /\ Abs(ViewOffset(currentYear, currentMonth) + offset) <= MaxNav
    /\ Become(navigate(This, offset))
    /\ hovered' = Null
    /\ last' = Step("navigate", NoCell, NoCall, Null)
    /\ UNCHANGED <<result, status, queue, script>>

\* a click on cell i: its click listeners run in the order they were added,
\* the arrow listener of the render first, then this.selectDate (which gets
\* the MouseEvent).  The first one runs in this step.
ClickCell(i) ==
    /\ Idle
    /\ Shown
    /\ Reachable(i)
    /\ hovered \in {Null, Some(i)}
    /\ LET c == cells[i]
       IN  IF c.arrow
           THEN \E s \in {selectDate(This, DateArg(c.date), i)} :
                    /\ Become(s)
                    /\ queue' = IF c.bound /\ s.cells[i].bound THEN <<i>> ELSE <<>>
                    /\ last' = Step("click", i, DateArg(c.date), Null)
           ELSE IF c.bound
           THEN /\ Become(selectDate(This, MouseEventArg, i))
                /\ queue' = <<>>
                /\ last' = Step("click", i, MouseEventArg, Null)
           ELSE /\ Become(This)
                /\ queue' = <<>>
                /\ last' = Step("click", i, NoCall, Null)
    /\ UNCHANGED <<result, status, hovered, script>>

\* the next listener of the click being dispatched
DispatchListener ==
    /\ status = "ready"
    /\ queue # <<>>
    /\ LET i == Head(queue)
       IN  IF cells[i].bound
           THEN /\ Become(selectDate(This, MouseEventArg, i))
                /\ last' = Step("click", i, MouseEventArg, Null)
           ELSE /\ Become(This)
                /\ last' = Step("click", i, NoCall, Null)
    /\ queue' = Tail(queue)
    /\ UNCHANGED <<result, status, hovered, script>>

\* addHighlightEvents registers hover listeners on the enabled cells of the
\* week and range calendars
HasHoverListeners(i) == cells[i].arrow /\ opt.type \in {"semana", "rango"}

MouseOver(i) ==
    /\ Idle
    /\ Shown
    /\ Reachable(i)
    /\ HasHoverListeners(i)
    /\ hovered = Null
    /\ Become(IF opt.type = "semana" THEN highlightWeek(This, i)
              ELSE highlightRange(This, cells[i].date))
    /\ hovered' = Some(i)
    /\ last' = Step("mouseover", i, NoCall, Null)
    /\ UNCHANGED <<result, status, queue, script>>

MouseOut(i) ==
    /\ Idle
    /\ hovered = Some(i)
    /\ i \in DOMAIN cells
    /\ Become(IF ~HasHoverListeners(i) THEN This
              ELSE IF opt.type = "semana" THEN clearHighlight(This)
              ELSE hideTooltip(clearHighlight(This)))
    /\ hovered' = Null
    /\ last' = Step("mouseout", i, NoCall, Null)
    /\ UNCHANGED <<result, status, queue, script>>

\* a click outside the container and the input: every click listener of
\* document runs
RECURSIVE RunDocListeners(_, _)
RunDocListeners(s, ls) ==
    IF ls = <<>> THEN s ELSE RunDocListeners(globalClickHandler(s), Tail(ls))

OutsideClick ==
    /\ Idle \/ status = "destroyed"
    /\ hovered = Null
    /\ Become(RunDocListeners(This, docListeners))
    /\ last' = Step("outsideClick", NoCell, NoCall, Null)
    /\ UNCHANGED <<result, status, hovered, queue, script>>

ClearSelection ==
    /\ Idle
    /\ Become(clearSelection(This))
    /\ hovered' = Null
    /\ last' = Step("clearSelection", NoCell, NoCall, Null)
    /\ UNCHANGED <<result, status, queue, script>>

\* the page calls destroy()
Destroy ==
    /\ Idle
    /\ Become(destroy(This))
    /\ status' = "destroyed"
    /\ hovered' = Null
    /\ last' = Step("destroy", NoCell, NoCall, Null)
    /\ UNCHANGED <<result, queue, script>>

CellIds == 0..31

Next ==
    \/ Construct
    \/ On
    \/ TriggerRenderCompleted
    \/ UpdateOptions
    \/ Focus
    \/ \E offset \in {-1, 1} : Navigate(offset)
    \/ \E i \in CellIds : ClickCell(i)
    \/ DispatchListener
    \/ \E i \in CellIds : MouseOver(i)
    \/ \E i \in CellIds : MouseOut(i)
    \/ OutsideClick
    \/ ClearSelection
    \/ Destroy

Spec == Init /\ [][Next]_vars

\* ------------------------------------------------------------------------
\* The query methods, formatDate and getSelectedDates, on an instance that
\* holds a selection.  They read selectedDates and dateFormat only; the
\* overlay is left as a constructed calendar has it before it is opened.
\* ------------------------------------------------------------------------

\* a format formatDate has no case for
UnknownFormat == "DD.MM.YYYY"

SampleDates ==
    {NewDate(2025, 2, 9), NewDate(2024, 11, 31), NewDate(2025, 0, 1),
     NewDate(2024, 1, 29), NewDate(2026, 9, 10)}

\* selectedDates as the commits leave it: empty, one date, or two in order
SampleSelections ==
    {<<>>} \cup {<<a>> : a \in SampleDates}
           \cup {<<a, b>> : a, b \in SampleDates}

QueryInit ==
    /\ status = "ready"
    /\ opt \in {[BaseOptions("rango") EXCEPT !.dateFormat = f, !.fechaVacia = FALSE] :
                   f \in Formats \cup {UnknownFormat}}
    /\ selectedDates \in {q \in SampleSelections : Len(q) = 2 => q[1] <= q[2]}
    /\ startDate = (IF Len(selectedDates) >= 1 THEN Some(selectedDates[1]) ELSE Null)
    /\ endDate = (IF Len(selectedDates) >= 2 THEN Some(selectedDates[2]) ELSE Null)
    /\ script = <<>>
    /\ events = NoEvents
    /\ delivered = <<>>
    /\ currentMonth = NowMonth
    /\ currentYear = NowYear
    /\ display = "none"
    /\ open = FALSE
    /\ inputValue = <<>>
    /\ placeholderSet = FALSE
    /\ cells = <<>>
    /\ tooltip = "absent"
    /\ docListeners = <<"globalClickHandler", "anonymous">>
    /\ hovered = Null
    /\ queue = <<>>
    /\ emitted = <<>>
    /\ reported = <<>>
    /\ result = Null
    /\ last = Step("none", NoCell, NoCall, Null)

\* the page calls calendar.formatDate(date) or calendar.formatDate(date, format)
FormatDate(t, format) ==
    /\ status = "ready"
    /\ result' = Some([op |-> "formatDate", date |-> t, format |-> format,
                       again |-> FALSE,
                       value |-> formatDate(t, IF IsDate(format) THEN Val(format)
                                               ELSE opt.dateFormat)])
    /\ UNCHANGED <<status, opt, startDate, endDate, selectedDates, currentMonth,
                   currentYear, display, open, inputValue, placeholderSet, cells,
                   tooltip, docListeners, events, script, delivered, hovered,
                   queue, emitted, reported, last>>

\* the page calls calendar.getSelectedDates(); again: the call before it was
\* getSelectedDates() too
GetSelectedDates ==
    /\ status = "ready"
    /\ result' = Some([op |-> "getSelectedDates", date |-> 0, format |-> Null,
                       again |-> result # Null /\ Val(result).op = "getSelectedDates",
                       value |-> getSelectedDates(This)])
    /\ UNCHANGED <<status, opt, startDate, endDate, selectedDates, currentMonth,
                   currentYear, display, open, inputValue, placeholderSet, cells,
                   tooltip, docListeners, events, script, delivered, hovered,
                   queue, emitted, reported, last>>

QueryNext ==
    \/ \E t \in SampleDates, f \in Formats \cup {UnknownFormat} : FormatDate(t, Some(f))
    \/ \E t \in SampleDates : FormatDate(t, Null)
    \/ GetSelectedDates

QuerySpec == QueryInit /\ [][QueryNext]_vars


\* ------------------------------------------------------------------------
\* Properties
\* ------------------------------------------------------------------------

\* the step just taken called selectDate with a Date / with an in-bounds Date
CalledWithDate == last.op = "click" /\ last.call.kind = "Date"
CalledInBounds == CalledWithDate /\ ~OutOfBounds(opt, last.call.t)

Event(name, data) == [event |-> name, data |-> data]
Pair(a, b) == [startDate |-> Some(a), endDate |-> Some(b)]

\* C1: a call of selectDate with an argument that is not a Date, or with a
\* date before minDate or after maxDate, changes neither selectedDates,
\* startDate, endDate, the input text nor the overlay's visibility, emits
\* no event and throws nothing.
C1_RejectedCallIsNoOp ==
    [][(/\ last'.op = "click"
        /\ last'.call.kind # "none"
        /\ \/ last'.call.kind # "Date"
           \/ OutOfBounds(opt, last'.call.t))
       => /\ UNCHANGED <<selectedDates, startDate, endDate, inputValue, display>>
          /\ emitted' = <<>>
          /\ last'.thrown = Null]_vars

C1_Witness ==
    /\ CalledWithDate
    /\ OutOfBounds(opt, last.call.t)
    /\ reported # <<>>

\* C2: range calendar: with an anchor A pending, selectDate(B) with
\* B >= A leaves startDate = A, endDate = B, selectedDates = [A, B] and
\* emits exactly one event, rangeSelected{A, B}; the call that set the
\* anchor emitted nothing.
C2_RangeCompletion ==
    [][(opt.type = "rango" /\ CalledInBounds')
       => IF Len(selectedDates) = 1
          THEN last'.call.t >= selectedDates[1]
               => /\ startDate' = Some(selectedDates[1])
                  /\ endDate' = Some(last'.call.t)
                  /\ selectedDates' = <<selectedDates[1], last'.call.t>>
                  /\ emitted' = <<Event("rangeSelected",
                                        Pair(selectedDates[1], last'.call.t))>>
          ELSE emitted' = <<>>]_vars

C2_Witness ==
    /\ opt.type = "rango"
    /\ CalledInBounds
    /\ last.had = 1
    /\ Len(selectedDates) = 2
    /\ selectedDates[1] < selectedDates[2]
    /\ selectedDates[2] = last.call.t
    /\ Len(emitted) = 1

\* C3: range calendar: with an anchor A pending, selectDate(B) with B < A
\* is rejected: selectedDates stays [A], startDate A, endDate null, the
\* input and the overlay are as before and no event is emitted.
C3_EndBeforeStartRejected ==
    [][(/\ opt.type = "rango"
        /\ CalledWithDate'
        /\ Len(selectedDates) = 1
        /\ last'.call.t < selectedDates[1])
       => /\ UNCHANGED <<selectedDates, startDate, endDate, inputValue, display>>
          /\ startDate = Some(selectedDates[1])
          /\ endDate = Null
          /\ emitted' = <<>>]_vars

C3_Witness ==
    /\ opt.type = "rango"
    /\ CalledInBounds
    /\ last.had = 1
    /\ Len(selectedDates) = 1
    /\ last.call.t < selectedDates[1]
    /\ reported # <<>>

\* C4: range calendar: with 0 or 2 dates selected, an in-bounds
\* selectDate(D) starts a pending range: selectedDates = [D], startDate = D,
\* endDate = null, and nothing is emitted.
C4_FreshPendingRange ==
    [][(/\ opt.type = "rango"
        /\ CalledInBounds'
        /\ Len(selectedDates) \in {0, 2})
       => /\ selectedDates' = <<last'.call.t>>
          /\ startDate' = Some(last'.call.t)
          /\ endDate' = Null
          /\ emitted' = <<>>]_vars

\* a third activation, after a completed range
C4_Witness ==
    /\ opt.type = "rango"
    /\ CalledInBounds
    /\ last.had = 2
    /\ Len(selectedDates) = 1

\* C5: day calendar: an in-bounds selectDate(D) leaves selectedDates = [D],
\* startDate = D, endDate = null, emits exactly dateSelected{D}, and
\* getSelectedDates() then returns D formatted and a null endDate
\* (2025-01-02 reads "2025-01-02" in the default format).
C5_DaySelection ==
    [][(opt.type = "dia" /\ CalledInBounds')
       => /\ selectedDates' = <<last'.call.t>>
          /\ startDate' = Some(last'.call.t)
          /\ endDate' = Null
          /\ emitted' = <<Event("dateSelected", [date |-> Some(last'.call.t)])>>
          /\ getSelectedDates(This)' =
                [startDate |-> Some(formatDate(last'.call.t, opt.dateFormat)),
                 endDate |-> Null]
          /\ (last'.call.t = NewDate(2025, 0, 2) /\ opt.dateFormat = "YYYY-MM-DD")
             => getSelectedDates(This)'.startDate =
                    Some(<<"2", "0", "2", "5", "-", "0", "1", "-", "0", "2">>)]_vars

\* a second selection replacing an earlier one
C5_Witness ==
    /\ opt.type = "dia"
    /\ CalledInBounds
    /\ last.had = 1
    /\ selectedDates = <<last.call.t>>
    /\ last.call.t = NewDate(2025, 0, 2)
    /\ Len(emitted) = 1

\* C6: week calendar: an in-bounds selectDate(D) leaves startDate = M, the
\* Monday with M <= D < M + 7 days, endDate = M + 6 days,
\* selectedDates = [M, M + 6 days], and emits exactly weekSelected{M, M + 6}.
C6_WeekSelection ==
    [][(opt.type = "semana" /\ CalledInBounds')
       => /\ Len(selectedDates') = 2
          /\ LET M == selectedDates'[1]
                 D == last'.call.t
             IN  /\ getDay(M) = 1
                 /\ M <= D
                 /\ D < M + 7 * TicksPerDay
                 /\ selectedDates'[2] = M + 6 * TicksPerDay
                 /\ startDate' = Some(M)
                 /\ endDate' = Some(M + 6 * TicksPerDay)
                 /\ emitted' = <<Event("weekSelected", Pair(M, M + 6 * TicksPerDay))>>]_vars

\* a click on a day that is not a Monday
C6_Witness ==
    /\ opt.type = "semana"
    /\ CalledInBounds
    /\ getDay(last.call.t) # 1
    /\ Len(selectedDates) = 2
    /\ Len(emitted) = 1

\* first and last day of the month t lies in
FirstOfMonth(t) == (DayOf(t) - (getDate(t) - 1)) * TicksPerDay
LastOfMonth(t) ==
    FirstOfMonth(t) + (DaysInMonthTable(getFullYear(t))[getMonth(t) + 1] - 1) * TicksPerDay
Min(a, b) == IF a <= b THEN a ELSE b

\* C7: month calendar: an in-bounds selectDate(D) leaves startDate = the
\* first day of D's month, endDate = min(last day of D's month, maxDate),
\* selectedDates = [startDate, endDate], and emits exactly monthSelected
\* with that pair.
C7_MonthSelection ==
    [][(opt.type = "mes" /\ CalledInBounds')
       => LET first == FirstOfMonth(last'.call.t)
              end == Min(LastOfMonth(last'.call.t), opt.maxDate)
          IN  /\ startDate' = Some(first)
              /\ endDate' = Some(end)
              /\ selectedDates' = <<first, end>>
              /\ emitted' = <<Event("monthSelected", Pair(first, end))>>]_vars

\* the month that maxDate cuts short
C7_Witness ==
    /\ opt.type = "mes"
    /\ CalledInBounds
    /\ selectedDates = <<FirstOfMonth(opt.maxDate), opt.maxDate>>
    /\ LastOfMonth(last.call.t) > opt.maxDate
    /\ Len(emitted) = 1

InvalidOptions(o) ==
    \/ o.minDays > o.maxDays
    \/ (IsDate(o.startDate) /\ (Val(o.startDate) < o.minDate \/ Val(o.startDate) > o.maxDate))
    \/ (IsDate(o.endDate) /\ (Val(o.endDate) < o.minDate \/ Val(o.endDate) > o.maxDate))

\* C8: the constructor throws when minDays > maxDays or a preset startDate
\* or endDate is outside [minDate, maxDate], and it has then registered no
\* listener, rendered nothing and emitted nothing.
C8_ConstructionFails ==
    (last.op = "constructor" /\ InvalidOptions(opt))
    => /\ status = "failed"
       /\ IsDate(last.thrown)
       /\ docListeners = <<>>
       /\ cells = <<>>
       /\ emitted = <<>>
       /\ display = ""
       /\ inputValue = <<>>
       /\ ~placeholderSet

C8_Witness ==
    /\ status = "failed"
    /\ opt.minDays > opt.maxDays
    /\ IsDate(last.thrown)

\* the shape of the selection q, with start and end dates a and b, in a
\* calendar of the given type
SelectionShape(type, q, a, b) ==
    CASE type = "rango" ->
           /\ Len(q) \in {0, 1, 2}
           /\ Len(q) = 1 => (b = Null /\ a = Some(q[1]))
           /\ Len(q) = 2 => (q[1] <= q[2] /\ a = Some(q[1]) /\ b = Some(q[2]))
      [] type = "dia" -> Len(q) \in {0, 1}
      [] OTHER -> Len(q) \in {0, 2}

\* C9: in a range calendar selectedDates holds 0, 1 or 2 dates; with one,
\* endDate is null and startDate is that date; with two, they are in
\* ascending order and are startDate and endDate.  A day calendar holds 0
\* or 1 date, a week or month calendar 0 or 2.  The constructor establishes
\* this and every operation other than updateOptions keeps it.
C9_SelectionShape ==
    [][(/\ last'.op # "updateOptions"
        /\ status = "ready" => SelectionShape(opt.type, selectedDates, startDate, endDate))
       => (status' = "ready"
           => SelectionShape(opt'.type, selectedDates', startDate', endDate'))]_vars

\* a pending anchor, after a navigation, in a calendar constructed with
\* preset dates
C9_Witness ==
    /\ opt.type = "rango"
    /\ Len(selectedDates) = 1
    /\ last.op = "navigate"
    /\ IsDate(opt.endDate)

\* C10: every range a range calendar commits (every rangeSelected) spans
\* at least minDays and at most maxDays days, both ends included.
C10_CommittedRangeLength ==
    (/\ opt.type = "rango"
     /\ Len(emitted) = 1
     /\ emitted[1].event = "rangeSelected")
    => LET days == DayOf(Val(endDate)) - DayOf(Val(startDate)) + 1
       IN  opt.minDays <= days /\ days <= opt.maxDays

\* the step just taken was a call of selectDate that commits a selection
Committed ==
    /\ CalledInBounds
    /\ (opt.type = "rango" => (last.had = 1 /\ Len(selectedDates) = 2))

\* C11: every successful commit emits exactly one event, the commit event
\* of the mode, and every callback it reaches runs with selectedDates,
\* startDate and endDate holding the new selection, the input rewritten
\* and the overlay hidden; getSelectedDates() inside the callback returns
\* the committed dates.
C11_CommitEventAfterState ==
    [][Committed'
       => /\ Len(emitted') = 1
          /\ emitted'[1].event = CommitEvent(opt.type)
          /\ Len(delivered') = Len(events[CommitEvent(opt.type)])
          /\ \A i \in DOMAIN delivered' :
                /\ delivered'[i].event = CommitEvent(opt.type)
                /\ delivered'[i].seen = observe(This)'
                /\ delivered'[i].seen.display = "none"
                /\ delivered'[i].seen.selectedDates # <<>>
                /\ opt.fechaVacia \/ delivered'[i].seen.inputValue # <<>>]_vars

C11_Witness ==
    /\ Committed
    /\ opt.type = "semana"
    /\ Len(delivered) = 1
    /\ delivered[1].callback = "observe"
    /\ delivered[1].seen.display = "none"
    /\ delivered[1].seen.selected = getSelectedDates(This)
    /\ delivered[1].seen.inputValue # <<>>

\* the callbacks registered for the event of one call of emit, in order
CallbacksOf(call) ==
    [i \in 1..Len(events[call.event]) |->
        <<call.event, i, events[call.event][i]>>]

RECURSIVE ExpectedCalls(_)
ExpectedCalls(calls) ==
    IF calls = <<>> THEN <<>>
    ELSE CallbacksOf(Head(calls)) \o ExpectedCalls(Tail(calls))

\* C12: every emit invokes each callback registered for its event once,
\* in registration order; a callback that throws stops none of the later
\* ones, makes nothing throw and leaves selectedDates, startDate and
\* endDate as they were when it ran.
C12_EveryCallbackInOrder ==
    [][/\ [i \in DOMAIN delivered' |->
            <<delivered'[i].event, delivered'[i].index, delivered'[i].callback>>]
          = ExpectedCalls(emitted')
       /\ \A i \in DOMAIN delivered' :
            delivered'[i].threw
            => /\ last'.thrown = Null
               /\ delivered'[i].seen.selectedDates = selectedDates'
               /\ delivered'[i].seen.startDate = startDate'
               /\ delivered'[i].seen.endDate = endDate']_vars

\* a callback ran after one that threw
C12_Witness ==
    /\ Len(delivered) = 2
    /\ delivered[1].threw
    /\ delivered[2].callback = "observe"
    /\ delivered[2].index = 2
    /\ reported # <<>>

\* C13: a callback that mutates the dates of its payload changes neither
\* selectedDates, startDate, endDate nor what getSelectedDates() returns:
\* the step leaves what it leaves with no callback registered.
C13_PayloadIsACopy ==
    [][(\E i \in DOMAIN delivered' : delivered'[i].callback = "mutate")
       => /\ last'.op = "click"
          /\ \E q \in {selectDate([This EXCEPT !.events = NoEvents],
                                   last'.call, last'.cell)} :
                /\ selectedDates' = q.selectedDates
                /\ startDate' = q.startDate
                /\ endDate' = q.endDate
                /\ getSelectedDates(This)' = getSelectedDates(q)]_vars

\* the callback after the mutating one was handed the mutated payload while
\* the instance kept its dates
C13_Witness ==
    /\ opt.type = "rango"
    /\ Len(delivered) = 2
    /\ delivered[1].callback = "mutate"
    /\ delivered[2].payload.startDate.kind = "Date"
    /\ delivered[2].payload.startDate.t = Val(startDate) + TicksPerDay
    /\ delivered[1].payload.startDate.t = Val(startDate)

\* the step just taken ended with a render of the table (renderCalendar,
\* and nothing after it that touches the highlight classes)
Rendered ==
    /\ status = "ready"
    /\ last.op \in {"constructor", "focus", "navigate", "clearSelection"}

\* the date of the day cell i of the month shown
CellDate(i) == NewDate(currentYear, currentMonth, i)

\* a date is eligible: its day lies within [minDate, maxDate], is not one
\* of disabledDates, and is not a Saturday or Sunday while disableWeekends
\* is set
Eligible(o, t) ==
    /\ DayOf(o.minDate) <= DayOf(t)
    /\ DayOf(t) <= DayOf(o.maxDate)
    /\ \A d \in o.disabledDates : DayOf(d) # DayOf(t)
    /\ ~(o.disableWeekends /\ getDay(t) \in {0, 6})

\* C14: a day cell is rendered selectable (configureDayCell gives it the
\* click listener and no 'disabled' class) if and only if its date is
\* eligible, in every selection state.
C14_SelectableIffEligible ==
    status = "ready"
    => \A i \in DOMAIN cells :
          IsDayCell(cells[i]) => (cells[i].arrow <=> Eligible(opt, CellDate(i)))

\* the cell lies outside the window an anchor A allows
OutsideAnchorWindow(o, A, t) ==
    \/ t < A
    \/ t < A + (o.minDays - 1) * TicksPerDay
    \/ t > A + (o.maxDays - 1) * TicksPerDay

\* C15: range calendar: while an anchor A is pending, after every
\* navigation and every focus of the input, each displayed day cell
\* before A, before A + (minDays - 1) or after A + (maxDays - 1) is
\* marked disabled.
C15_AnchorWindowDisabled ==
    (/\ status = "ready"
     /\ opt.type = "rango"
     /\ Len(selectedDates) = 1
     /\ last.op \in {"navigate", "focus"})
    => \A i \in DOMAIN cells :
          OutsideAnchorWindow(opt, selectedDates[1], CellDate(i))
          => "disabled" \in cells[i].cls

\* C16: range calendar: with no selection or a completed range, a
\* navigation leaves every cell that the render made selectable enabled.
C16_NoDisablingWithoutAnchor ==
    (/\ status = "ready"
     /\ opt.type = "rango"
     /\ Len(selectedDates) \in {0, 2}
     /\ last.op = "navigate")
    => \A i \in DOMAIN cells :
          cells[i].arrow => "disabled" \notin cells[i].cls

\* C17: navigate(+1 / -1) steps currentYear in a month calendar and
\* currentMonth otherwise, rolling the year over (11 -> 0, year + 1) and
\* under (0 -> 11, year - 1); currentMonth stays in 0..11, and navigate(+1)
\* followed by navigate(-1) restores (currentMonth, currentYear).
C17_NavigationCursor ==
    [][/\ last'.op = "navigate"
          => \E offset \in {-1, 1} :
                IF opt.type = "mes"
                THEN currentYear' = currentYear + offset /\ currentMonth' = currentMonth
                ELSE currentYear' * 12 + currentMonth'
                        = currentYear * 12 + currentMonth + offset
       /\ currentMonth' \in 0..11
       /\ last'.op = "navigate"
          => \E s \in {navigate(navigate(This, 1), -1)} :
                s.currentMonth = currentMonth /\ s.currentYear = currentYear]_vars

\* the view rolled over from December into January of the next year
C17_Witness ==
    /\ last.op = "navigate"
    /\ opt.type # "mes"
    /\ currentMonth = 0
    /\ currentYear = NowYear + 1

\* C18: navigation changes only the view: it leaves selectedDates,
\* startDate, endDate and the input text as they were and emits nothing
\* but renderCompleted.
C18_NavigationKeepsSelection ==
    [][last'.op = "navigate"
       => /\ UNCHANGED <<selectedDates, startDate, endDate, inputValue>>
          /\ emitted' # <<>>
          /\ \A i \in DOMAIN emitted' : emitted'[i].event = "renderCompleted"]_vars

\* a navigation with a completed selection written in the input
C18_Witness ==
    /\ last.op = "navigate"
    /\ Len(selectedDates) = 2
    /\ IsDate(endDate)
    /\ inputValue # <<>>

\* the highlight class a day cell of date t carries according to startDate
\* and endDate
ExpectedHighlight(t) ==
    IF IsDate(startDate) /\ t = Val(startDate) THEN {"highlight-start"}
    ELSE IF IsDate(endDate) /\ t = Val(endDate) THEN {"highlight-end"}
    ELSE IF /\ IsDate(startDate) /\ IsDate(endDate)
            /\ t > Val(startDate) /\ t < Val(endDate) THEN {"highlight-range"}
    ELSE {}

\* C19 as stated: after every render of a range or week calendar each day
\* cell carries highlight-start if its date is startDate, highlight-end if
\* it is endDate, highlight-range if it lies strictly between, and no
\* highlight class otherwise.
C19_HighlightAfterRender ==
    (Rendered /\ opt.type \in {"rango", "semana"})
    => \A i \in DOMAIN cells :
          cells[i].cls \cap HighlightClasses = ExpectedHighlight(CellDate(i))

\* C20: after every render of a month calendar with a startDate, a month
\* cell carries highlight-start if and only if its month and year are
\* those of startDate.
C20_MonthHighlight ==
    (Rendered /\ opt.type = "mes" /\ IsDate(startDate))
    => \A i \in DOMAIN cells :
          "highlight-start" \in cells[i].cls
          <=> (i = getMonth(Val(startDate)) /\ currentYear = getFullYear(Val(startDate)))

\* C19 amended: after every render of a range or week calendar, with a
\* startDate each day cell carries the highlight class that startDate and
\* endDate give it, and at most one; with no startDate no cell carries a
\* highlight class, whatever endDate is.
C19_HighlightWithStartDate ==
    (Rendered /\ opt.type \in {"rango", "semana"})
    => \A i \in DOMAIN cells :
          /\ cells[i].cls \cap HighlightClasses
                = IF IsDate(startDate) THEN ExpectedHighlight(CellDate(i)) ELSE {}
          /\ Cardinality(cells[i].cls \cap HighlightClasses) <= 1

\* a range of at least three days in the month shown
C19_Witness ==
    /\ Rendered
    /\ opt.type = "rango"
    /\ Len(selectedDates) = 2
    /\ \E i, j, k \in DOMAIN cells :
          /\ i < j /\ j < k
          /\ "highlight-start" \in cells[i].cls
          /\ "highlight-range" \in cells[j].cls
          /\ "highlight-end" \in cells[k].cls

\* C21: a mouseover or a mouseout on a day cell changes neither
\* selectedDates, startDate, endDate nor the input text, and emits nothing.
C21_HoverKeepsSelection ==
    [][last'.op \in {"mouseover", "mouseout"}
       => /\ UNCHANGED <<selectedDates, startDate, endDate, inputValue>>
          /\ emitted' = <<>>]_vars

\* the pointer left a cell of a range calendar whose preview had a tooltip
C21_Witness ==
    /\ last.op = "mouseout"
    /\ opt.type = "rango"
    /\ Len(selectedDates) = 1
    /\ tooltip = "none"

\* the highlight classes of the cells c
HighlightOf(c) == [i \in DOMAIN c |-> c[i].cls \cap HighlightClasses]

\* C22: after a mouseover and the mouseout of the same cell the highlight
\* classes of the displayed cells are again those of the selection, as a
\* render applies them.
C22_PreviewIsEphemeral ==
    (status = "ready" /\ last.op = "mouseout")
    => HighlightOf(cells) = HighlightOf(applyHighlightClasses(This).cells)

\* inclusive number of days between two dates
DaysBetween(a, b) == Abs(DayOf(b) - DayOf(a)) + 1

\* the classes a preview of the week from Monday M gives the cell of date t
WeekPreview(M, t) ==
    IF t = M THEN {"highlight-start"}
    ELSE IF t = M + 6 * TicksPerDay THEN {"highlight-end"}
    ELSE IF t > M /\ t < M + 6 * TicksPerDay THEN {"highlight-range"}
    ELSE {}

\* the Monday of the week of t
MondayOf(t) == t - ((getDay(t) + 6) % 7) * TicksPerDay

\* C23: range calendar: a mouseover on a date more than maxDays days
\* (both ends counted) from selectedDates[0] changes no highlight class
\* and shows no tooltip; week calendar: the week is previewed when
\* maxDays >= 7 and no class changes otherwise.
C23_PreviewRespectsMaxDays ==
    [][last'.op = "mouseover"
       => /\ (/\ opt.type = "rango"
               /\ selectedDates # <<>>
               /\ DaysBetween(selectedDates[1], cells[last'.cell].date) > opt.maxDays)
             => /\ HighlightOf(cells') = HighlightOf(cells)
                /\ tooltip' # "visible"
          /\ (opt.type = "semana" /\ opt.maxDays < 7)
             => HighlightOf(cells') = HighlightOf(cells)
          /\ (opt.type = "semana" /\ opt.maxDays >= 7)
             => HighlightOf(cells')
                  = [i \in DOMAIN cells |->
                       WeekPreview(MondayOf(cells[last'.cell].date), CellDate(i))]]_vars

\* the pointer is on a date beyond the cap and nothing is previewed
C23_Witness ==
    /\ last.op = "mouseover"
    /\ opt.type = "rango"
    /\ selectedDates # <<>>
    /\ DaysBetween(selectedDates[1], cells[last.cell].date) > opt.maxDays
    /\ tooltip # "visible"

\* C26: the instance has exactly one click listener on document, and a
\* click outside the container and the input emits calendarClosed exactly
\* once.
C26_SingleOutsideListener ==
    /\ status = "ready" => Len(docListeners) = 1
    /\ (status = "ready" /\ last.op = "outsideClick")
       => Len(SelectSeq(emitted, LAMBDA e : e.event = "calendarClosed")) = 1

\* C27: destroy() leaves no click listener of the instance on document and
\* no callback in the event map; an outside click after it changes nothing
\* of the container, calls no emit and delivers no event.
C27_DestroyDetaches ==
    [][/\ status' = "destroyed" => (docListeners' = <<>> /\ events' = NoEvents)
       /\ (status = "destroyed" /\ last'.op = "outsideClick")
          => /\ UNCHANGED <<display, open, cells, tooltip>>
             /\ emitted' = <<>>
             /\ delivered' = <<>>]_vars

\* C28: no operation on a constructed calendar changes its type.
C28_ModeIsFixed ==
    [][status = "ready" => opt'.type = opt.type]_vars

\* C29: on a constructed calendar minDays <= maxDays, whatever calls of
\* updateOptions have returned; a call that would break it throws and
\* assigns nothing.
C29_UpdateOptionsRevalidates ==
    status = "ready" => opt.minDays <= opt.maxDays

\* C30: when fechaVacia is true the input's value is the empty string, in
\* every state of a constructed calendar.
C30_FechaVaciaKeepsInputEmpty ==
    (status = "ready" /\ opt.fechaVacia) => inputValue = <<>>

\* the i-th of the dates q formatted with the configured format, or null
Formatted(q, i) ==
    IF Len(q) >= i THEN Some(formatDate(q[i], opt.dateFormat)) ELSE Null

\* C24: getSelectedDates() changes nothing of the instance; it returns the
\* formatted selectedDates[0] and selectedDates[1], null for an absent one,
\* and a second call right after the first returns the same.
C24_GetSelectedDatesIsPure ==
    [][(result' # Null /\ Val(result').op = "getSelectedDates")
       => /\ UNCHANGED <<status, opt, startDate, endDate, selectedDates, currentMonth,
                         currentYear, display, open, inputValue, placeholderSet,
                         cells, tooltip, docListeners, events, emitted>>
          /\ Val(result').value = [startDate |-> Formatted(selectedDates, 1),
                                   endDate |-> Formatted(selectedDates, 2)]
          /\ Val(result').again => Val(result').value = Val(result).value]_vars

\* a second call in a row, with one date selected
C24_Witness ==
    /\ result # Null
    /\ Val(result).op = "getSelectedDates"
    /\ Val(result).again
    /\ Len(selectedDates) = 1
    /\ Val(result).value.startDate # Null
    /\ Val(result).value.endDate = Null

\* the pieces of each format's pattern
Tokens(format) ==
    CASE format = "DD MMM YYYY" -> <<"DD", " ", "MMM", " ", "YYYY">>
      [] format = "YYYY-MM-DD" -> <<"YYYY", "-", "MM", "-", "DD">>
      [] format = "DD/MM/YYYY" -> <<"DD", "/", "MM", "/", "YYYY">>
      [] format = "MM/DD/YYYY" -> <<"MM", "/", "DD", "/", "YYYY">>
      [] format = "YYYY/MM/DD" -> <<"YYYY", "/", "MM", "/", "DD">>

\* n in decimal, zero-padded to width digits
Decimal(n, width) ==
    [i \in 1..width |-> Digits[((n \div (10 ^ (width - i))) % 10) + 1]]

TokenText(token, t) ==
    CASE token = "DD" -> Decimal(getDate(t), 2)
      [] token = "MM" -> Decimal(getMonth(t) + 1, 2)
      [] token = "MMM" -> monthNames[getMonth(t) + 1]
      [] token = "YYYY" -> Decimal(getFullYear(t), 4)
      [] OTHER -> <<token>>

RECURSIVE PatternText(_, _)
PatternText(tokens, t) ==
    IF tokens = <<>> THEN <<>>
    ELSE TokenText(Head(tokens), t) \o PatternText(Tail(tokens), t)

\* C25: formatDate(d, fmt) is, for each of the five formats, the pattern
\* with DD and MM replaced by the two-digit day and month, MMM by the
\* three-letter month and YYYY by the four-digit year (2025-03-09 gives
\* "09 Mar 2025" and "2025/03/09"); for any other format it is the text of
\* YYYY-MM-DD.  A call without a format uses the configured one.
C25_FormatDatePatterns ==
    (result # Null /\ Val(result).op = "formatDate")
    => LET r == Val(result)
           fmt == IF IsDate(r.format) THEN Val(r.format) ELSE opt.dateFormat
       IN  /\ r.value = PatternText(Tokens(IF fmt \in Formats THEN fmt
                                             ELSE "YYYY-MM-DD"), r.date)
           /\ (r.date = NewDate(2025, 2, 9) /\ fmt = "DD MMM YYYY")
              => r.value = <<"0", "9", " ", "M", "a", "r", " ", "2", "0", "2", "5">>
           /\ (r.date = NewDate(2025, 2, 9) /\ fmt = "YYYY/MM/DD")
              => r.value = <<"2", "0", "2", "5", "/", "0", "3", "/", "0", "9">>

\* formatDate(new Date(2025, 2, 9), 'DD MMM YYYY') returned "09 Mar 2025"
C25_Witness ==
    /\ result # Null
    /\ Val(result).op = "formatDate"
    /\ Val(result).date = NewDate(2025, 2, 9)
    /\ Val(result).format = Some("DD MMM YYYY")
    /\ Val(result).value = <<"0", "9", " ", "M", "a", "r", " ", "2", "0", "2", "5">>

\* C31: after clearSelection() selectedDates is empty, startDate and
\* endDate are null, getSelectedDates() returns two nulls, the input of a
\* calendar that writes it is empty, and the re-rendered cells carry no
\* highlight class and no disabling beyond that of the render.
C31_ClearSelectionClears ==
    (status = "ready" /\ last.op = "clearSelection")
    => /\ selectedDates = <<>>
       /\ startDate = Null
       /\ endDate = Null
       /\ getSelectedDates(This) = [startDate |-> Null, endDate |-> Null]
       /\ ~opt.fechaVacia => inputValue = <<>>
       /\ \A i \in DOMAIN cells :
             /\ cells[i].cls \cap HighlightClasses = {}
             /\ cells[i].arrow => "disabled" \notin cells[i].cls

\* t lies within [minDate, maxDate]
WithinBounds(o, t) == o.minDate <= t /\ t <= o.maxDate

\* C33: on a constructed calendar startDate, endDate and every date of
\* selectedDates lie within [minDate, maxDate].
C33_SelectionWithinBounds ==
    status = "ready"
    => /\ IsDate(startDate) => WithinBounds(opt, Val(startDate))
       /\ IsDate(endDate) => WithinBounds(opt, Val(endDate))
       /\ \A k \in DOMAIN selectedDates : WithinBounds(opt, selectedDates[k])

\* a date of the instance formatted as getSelectedDates formats, or null
FormattedField(d) ==
    IF IsDate(d) THEN Some(formatDate(Val(d), opt.dateFormat)) ELSE Null

\* C37: getSelectedDates() returns startDate and endDate formatted, null
\* for a null one, in every state of a constructed calendar.
C37_GetSelectedDatesAgrees ==
    status = "ready"
    => getSelectedDates(This) = [startDate |-> FormattedField(startDate),
                                 endDate |-> FormattedField(endDate)]

\* C38: on a constructed calendar, startDate <= endDate whenever both are
\* set.
C38_StartNotAfterEnd ==
    (status = "ready" /\ IsDate(startDate) /\ IsDate(endDate))
    => Val(startDate) <= Val(endDate)

\* C32: week calendar: a click on an enabled day cell whose displayed day
\* passes the bounds check of selectDate commits the week of that day,
\* whether or not the cell was hovered before.
C32_WeekClickIgnoresHover ==
    [][(/\ opt.type = "semana"
        /\ last'.op = "click"
        /\ last'.call.kind = "Date"
        /\ ~OutOfBounds(opt, CellDate(last'.cell)))
       => /\ selectedDates' = <<MondayOf(CellDate(last'.cell)),
                                 MondayOf(CellDate(last'.cell)) + 6 * TicksPerDay>>
          /\ Len(emitted') = 1
          /\ emitted'[1].event = "weekSelected"]_vars

\* C34: month calendar: a click on a month cell that was rendered enabled
\* commits that month and emits monthSelected.
C34_EnabledMonthIsSelectable ==
    [][(/\ opt.type = "mes"
        /\ last'.op = "click"
        /\ last'.call.kind = "Date"
        /\ cells[last'.cell].arrow)
       => /\ Len(selectedDates') = 2
          /\ selectedDates'[1] = NewDate(currentYear, last'.cell, 1)
          /\ Len(emitted') = 1
          /\ emitted'[1].event = "monthSelected"]_vars

\* C35: every displayed day that isDateDisabled reports as enabled passes
\* the bounds check of selectDate.
C35_RenderAndActivationAgree ==
    (status = "ready" /\ opt.type # "mes")
    => \A i \in DOMAIN cells :
          ~isDateDisabled(opt, CellDate(i)) => ~OutOfBounds(opt, CellDate(i))

\* C36: day and range calendars: every date a click adds to selectedDates
\* is eligible.
C36_SelectedDatesEligible ==
    [][(opt.type \in {"dia", "rango"} /\ last'.op = "click")
       => \A k \in DOMAIN selectedDates' :
             \/ \E j \in DOMAIN selectedDates : selectedDates[j] = selectedDates'[k]
             \/ Eligible(opt, selectedDates'[k])]_vars

\* the number of calls of emit(name, ...) among the calls e
Emissions(e, name) == Len(SelectSeq(e, LAMBDA x : x.event = name))

\* C39: calendarClosed is emitted only by a step that found the overlay
\* shown, every step that hides a shown overlay emits it exactly once, and
\* calendarOpened is emitted only by a step that found the overlay hidden.
C39_OpenCloseAlternate ==
    [][/\ Emissions(emitted', "calendarClosed") > 0 => display = "block"
       /\ (display = "block" /\ display' # "block")
          => Emissions(emitted', "calendarClosed") = 1
       /\ Emissions(emitted', "calendarOpened") > 0 => display # "block"]_vars

\* C40: the constructor invokes no callback, its event map being empty
\* while it runs; a renderCompleted callback is invoked only by a later
\* render or by triggerRenderCompleted().
C40_ConstructionReachesNobody ==
    [][/\ last'.op = "constructor" => (delivered' = <<>> /\ events' = NoEvents)
       /\ (\E k \in DOMAIN delivered' : delivered'[k].event = "renderCompleted")
          => last'.op \in {"focus", "navigate", "clearSelection", "updateOptions",
                            "triggerRenderCompleted"}]_vars

\* the constructor has emitted renderCompleted and the page is about to
\* subscribe to it
C40_Witness ==
    /\ status = "ready"
    /\ last.op = "constructor"
    /\ Emissions(emitted, "renderCompleted") > 0
    /\ delivered = <<>>
    /\ script # <<>>
    /\ Head(script).op = "on"
    /\ Head(script).event = "renderCompleted"

====
